---- MODULE Spec2Model ----
(***************************************************************************)
(* partyhat planning core: the tool registry (planning_tools.py), the      *)
(* orchestrator (planning_agent.py), the approve endpoint (api.py) and the *)
(* two-tier Letta store they write through MemoryManager                   *)
(* (memory_manager.py).                                                    *)
(*                                                                         *)
(* Text (a block value, a tool payload, a model reply) is a sequence of    *)
(* tokens.  json.loads and json.dumps are a parser and a printer between   *)
(* token sequences and JSON values; building a SmartContractPlan checks    *)
(* the pydantic schema, and model_dump rebuilds the document in the order  *)
(* of the schema's fields.                                                 *)
(***************************************************************************)
EXTENDS Naturals, Sequences, FiniteSets, TLC

\* Number of processes (tool calls, CLI runs, API requests) that may be
\* inside the store at the same time.
NumWorkers == 2

Workers == 1..NumWorkers

-----------------------------------------------------------------------------
(* JSON values.  One record shape for every value so that any two values   *)
(* can be compared: t is the kind, s the text of a string or number, keys  *)
(* the member names of an object, items the members or the elements.       *)

JStr(s) == [t |-> "str", s |-> s, keys |-> <<>>, items |-> <<>>]
JNum(s) == [t |-> "num", s |-> s, keys |-> <<>>, items |-> <<>>]
JNull == [t |-> "null", s |-> "", keys |-> <<>>, items |-> <<>>]
JList(items) == [t |-> "list", s |-> "", keys |-> <<>>, items |-> items]
JObj(keys, items) == [t |-> "obj", s |-> "", keys |-> keys, items |-> items]

\* Tokens that are not string literals: punctuation, number literals, and
\* the words of plain prose (a quoted JSON string is any other token).
Punct == {"{", "}", "[", "]", "null"}
NumTokens == {"#1"}
\* Fence stands for the three-backquote fence marker of a code block.
Fence == "<fence>"
Prose == {"No plan yet.", "No user context yet.", "PLAN_READY", Fence, "json",
          "Which", "standard?"}

\* dict[key] semantics of a parsed object: the last member of that name.
HasKey(o, k) == o.t = "obj" /\ \E i \in 1..Len(o.keys) : o.keys[i] = k
Get(o, k) ==
    LET i == CHOOSE i \in 1..Len(o.keys) :
                 /\ o.keys[i] = k
                 /\ \A j \in (i+1)..Len(o.keys) : o.keys[j] # k
    IN o.items[i]

\* raw[k] = v on a dict: replaces the member in place, or appends it.
SetKey(o, k, v) ==
    IF HasKey(o, k)
    THEN [o EXCEPT !.items = [i \in 1..Len(o.items) |->
                                 IF o.keys[i] = k THEN v ELSE o.items[i]]]
    ELSE [o EXCEPT !.keys = Append(o.keys, k), !.items = Append(o.items, v)]

-----------------------------------------------------------------------------
(* json.dumps: the printer.                                                *)

RECURSIVE json_dumps(_)
RECURSIVE DumpItems(_)
RECURSIVE DumpItemsBackwards(_)
RECURSIVE DumpMembers(_, _)

\* Variant with a fault: a list is written from its last entry to its first.
DumpItemsBackwards(items) ==
    IF items = <<>> THEN <<>>
    ELSE DumpItemsBackwards(Tail(items)) \o json_dumps(Head(items))

DumpItems(items) ==
    IF items = <<>> THEN <<>>
    ELSE json_dumps(Head(items)) \o DumpItems(Tail(items))

DumpMembers(keys, items) ==
    IF keys = <<>> THEN <<>>
    ELSE <<Head(keys)>> \o json_dumps(Head(items)) \o DumpMembers(Tail(keys), Tail(items))

json_dumps(v) ==
    CASE v.t = "str" -> <<v.s>>
      [] v.t = "num" -> <<v.s>>
      [] v.t = "null" -> <<"null">>
      [] v.t = "list" -> <<"[">> \o DumpItems(v.items) \o <<"]">>
      [] OTHER -> <<"{">> \o DumpMembers(v.keys, v.items) \o <<"}">>

-----------------------------------------------------------------------------
(* json.loads: the parser.  A parse step returns the value read and the    *)
(* tokens left; ok is FALSE where json.loads raises JSONDecodeError.       *)

ParseFail == [ok |-> FALSE, val |-> JNull, rest |-> <<>>]
ParseOk(v, rest) == [ok |-> TRUE, val |-> v, rest |-> rest]

RECURSIVE ParseValue(_)
RECURSIVE ParseItems(_, _)
RECURSIVE ParseMembers(_, _, _)

ParseItems(ts, acc) ==
    IF ts = <<>> THEN ParseFail
    ELSE IF Head(ts) = "]" THEN ParseOk(JList(acc), Tail(ts))
    ELSE LET r == ParseValue(ts)
         IN IF r.ok THEN ParseItems(r.rest, Append(acc, r.val)) ELSE ParseFail

ParseMembers(ts, keys, items) ==
    IF ts = <<>> THEN ParseFail
    ELSE IF Head(ts) = "}" THEN ParseOk(JObj(keys, items), Tail(ts))
    ELSE IF Head(ts) \in Punct \cup NumTokens \cup Prose THEN ParseFail
    ELSE LET r == ParseValue(Tail(ts))
         IN IF r.ok
            THEN ParseMembers(r.rest, Append(keys, Head(ts)), Append(items, r.val))
            ELSE ParseFail

ParseValue(ts) ==
    IF ts = <<>> THEN ParseFail
    ELSE LET h == Head(ts)
             r == Tail(ts)
         IN CASE h = "{" -> ParseMembers(r, <<>>, <<>>)
              [] h = "[" -> ParseItems(r, <<>>)
              [] h = "null" -> ParseOk(JNull, r)
              [] h \in {"}", "]"} -> ParseFail
              [] h \in NumTokens -> ParseOk(JNum(h), r)
              [] h \in Prose -> ParseFail
              [] OTHER -> ParseOk(JStr(h), r)

\* json.loads(text): one value and nothing after it.
json_loads(ts) ==
    LET r == ParseValue(ts)
    IN IF r.ok /\ r.rest = <<>> THEN r ELSE ParseFail

-----------------------------------------------------------------------------
(* The plan schema (schemas/plan_schema.py).  For each pydantic model, Ok  *)
(* is "construction does not raise" and Dump is model_dump of the model    *)
(* built: the declared fields in declaration order, extra members dropped. *)

DRAFT == "draft"
READY == "ready"
GENERATING == "generating"
TESTING == "testing"
DEPLOYED == "deployed"
PlanStatus == {DRAFT, READY, GENERATING, TESTING, DEPLOYED}

\* Position of a status in the enum's declaration order.
StatusRank(st) ==
    CASE st = DRAFT -> 1
      [] st = READY -> 2
      [] st = GENERATING -> 3
      [] st = TESTING -> 4
      [] st = DEPLOYED -> 5
      [] OTHER -> 0

\* A required field of type str.
StrField(o, k) == HasKey(o, k) /\ Get(o, k).t = "str"

\* A required field of type list[...]; what its elements must be is said
\* where the field is declared.
IsList(o, k) == HasKey(o, k) /\ Get(o, k).t = "list"
Items(o, k) == Get(o, k).items

IsStrValue(v) == v.t = "str"

FunctionInputOk(v) ==
    /\ v.t = "obj"
    /\ StrField(v, "name")
    /\ StrField(v, "type")
    /\ StrField(v, "description")

FunctionInputDump(v) ==
    JObj(<<"name", "type", "description">>,
         <<Get(v, "name"), Get(v, "type"), Get(v, "description")>>)

FunctionOutputOk(v) ==
    /\ v.t = "obj"
    /\ StrField(v, "type")
    /\ StrField(v, "description")

FunctionOutputDump(v) ==
    JObj(<<"type", "description">>, <<Get(v, "type"), Get(v, "description")>>)

ContractFunctionOk(v) ==
    /\ v.t = "obj"
    /\ StrField(v, "name")
    /\ StrField(v, "description")
    /\ IsList(v, "inputs")
    /\ (\A i \in 1..Len(Items(v, "inputs")) : FunctionInputOk(Items(v, "inputs")[i]))
    /\ IsList(v, "outputs")
    /\ (\A i \in 1..Len(Items(v, "outputs")) : FunctionOutputOk(Items(v, "outputs")[i]))
    /\ IsList(v, "conditions")
    /\ (\A i \in 1..Len(Items(v, "conditions")) : IsStrValue(Items(v, "conditions")[i]))

ContractFunctionDump(v) ==
    JObj(<<"name", "description", "inputs", "outputs", "conditions">>,
         <<Get(v, "name"), Get(v, "description"),
           JList([i \in 1..Len(Items(v, "inputs")) |-> FunctionInputDump(Items(v, "inputs")[i])]),
           JList([i \in 1..Len(Items(v, "outputs")) |-> FunctionOutputDump(Items(v, "outputs")[i])]),
           Get(v, "conditions")>>)

ConstructorOk(v) ==
    /\ v.t = "obj"
    /\ IsList(v, "inputs")
    /\ (\A i \in 1..Len(Items(v, "inputs")) : FunctionInputOk(Items(v, "inputs")[i]))
    /\ StrField(v, "description")

ConstructorDump(v) ==
    JObj(<<"inputs", "description">>,
         <<JList([i \in 1..Len(Items(v, "inputs")) |-> FunctionInputDump(Items(v, "inputs")[i])]), Get(v, "description")>>)

\* erc_template: Optional[str] with no default: the member is required,
\* and its value is a string or null.
ContractPlanOk(v) ==
    /\ v.t = "obj"
    /\ StrField(v, "name")
    /\ StrField(v, "description")
    /\ HasKey(v, "erc_template")
    /\ Get(v, "erc_template").t \in {"str", "null"}
    /\ IsList(v, "dependencies")
    /\ (\A i \in 1..Len(Items(v, "dependencies")) : IsStrValue(Items(v, "dependencies")[i]))
    /\ HasKey(v, "constructor")
    /\ ConstructorOk(Get(v, "constructor"))
    /\ IsList(v, "functions")
    /\ (\A i \in 1..Len(Items(v, "functions")) : ContractFunctionOk(Items(v, "functions")[i]))

ContractPlanDump(v) ==
    JObj(<<"name", "description", "erc_template", "dependencies", "constructor",
           "functions">>,
         <<Get(v, "name"), Get(v, "description"), Get(v, "erc_template"),
           Get(v, "dependencies"), ConstructorDump(Get(v, "constructor")),
           JList([i \in 1..Len(Items(v, "functions")) |-> ContractFunctionDump(Items(v, "functions")[i])])>>)

\* status: PlanStatus = PlanStatus.DRAFT: optional, one of the enum's values.
StatusOk(raw) ==
    HasKey(raw, "status") =>
        /\ Get(raw, "status").t = "str"
        /\ Get(raw, "status").s \in PlanStatus

\* Whether building a SmartContractPlan from the parsed payload succeeds.
SmartContractPlanOk(raw) ==
    /\ raw.t = "obj"
    /\ StrField(raw, "project_name")
    /\ StrField(raw, "description")
    /\ StatusOk(raw)
    /\ IsList(raw, "contracts")
    /\ (\A i \in 1..Len(Items(raw, "contracts")) : ContractPlanOk(Items(raw, "contracts")[i]))

\* plan.model_dump() of the plan built from raw.
model_dump(raw) ==
    JObj(<<"project_name", "description", "status", "contracts">>,
         <<IF HasKey(raw, "project_name") THEN Get(raw, "project_name") ELSE JNull,
           Get(raw, "description"),
           IF HasKey(raw, "status") THEN Get(raw, "status") ELSE JStr(DRAFT),
           JList([i \in 1..Len(Items(raw, "contracts")) |-> ContractPlanDump(Items(raw, "contracts")[i])])>>)

\* The first top-level field a ValidationError names.
FirstError(raw) ==
    CASE raw.t # "obj" -> "<not a mapping>"
      [] ~StrField(raw, "project_name") -> "project_name"
      [] ~StrField(raw, "description") -> "description"
      [] ~StatusOk(raw) -> "status"
      [] OTHER -> "contracts"

\* Whether the ValidationError of SmartContractPlan(**raw) has no entry for
\* the top-level field f, and the fields it has entries for, in the order
\* of the schema.
FieldOk(raw, f) ==
    CASE f = "status" -> StatusOk(raw)
      [] f = "contracts" ->
            /\ IsList(raw, "contracts")
            /\ (\A i \in 1..Len(Items(raw, "contracts")) : ContractPlanOk(Items(raw, "contracts")[i]))
      [] OTHER -> StrField(raw, f)

\* Variant with a fault: the error text names no field.
ErrorFieldsUnnamed(raw) == <<"<ValidationError>">>

ErrorFields(raw) ==
    SelectSeq(<<"project_name", "description", "status", "contracts">>,
              LAMBDA f : ~FieldOk(raw, f))

NoPlan == JNull

\* A stored text that is a schema-valid plan in the form model_dump and
\* json.dumps give it.
IsPlanText(ts) ==
    /\ json_loads(ts).ok
    /\ SmartContractPlanOk(json_loads(ts).val)
    /\ json_dumps(model_dump(json_loads(ts).val)) = ts

-----------------------------------------------------------------------------
(* Inputs: the payloads a tool can be called with and the replies the      *)
(* completion capability can give.                                          *)

AnInput ==
    JObj(<<"name", "type", "description">>,
         <<JStr("to"), JStr("address"), JStr("recipient")>>)

MintFunction ==
    JObj(<<"name", "description", "inputs", "outputs", "conditions">>,
         <<JStr("mint"), JStr("creates tokens"), JList(<<AnInput>>), JList(<<>>),
           JList(<<JStr("caller is the owner")>>)>>)

\* No conditions member: a malformed nested record.
BrokenFunction ==
    JObj(<<"name", "description", "inputs", "outputs">>,
         <<JStr("burn"), JStr("destroys tokens"), JList(<<>>), JList(<<>>)>>)

\* A contract as the system prompt lays it out (constructor: description
\* before inputs).
AContract(template, functions) ==
    JObj(<<"name", "description", "erc_template", "dependencies", "constructor",
           "functions">>,
         <<JStr("Coin"), JStr("the token"), template, JList(<<JStr("Ownable")>>),
           JObj(<<"description", "inputs">>, <<JStr("sets the name"), JList(<<AnInput>>)>>),
           JList(functions)>>)

PFull ==
    json_dumps(JObj(<<"project_name", "description", "contracts">>,
               <<JStr("Coin"), JStr("a token"),
                 JList(<<AContract(JStr("ERC-20"), <<MintFunction>>)>>)>>))

\* The same plan carrying status deployed, its members in another order
\* and one member the schema does not know.
PDeployed ==
    json_dumps(JObj(<<"status", "notes", "contracts", "project_name", "description">>,
               <<JStr(DEPLOYED), JStr("shipped"),
                 JList(<<AContract(JStr("ERC-20"), <<MintFunction>>)>>),
                 JStr("Coin"), JStr("a token")>>))

PNoContracts ==
    json_dumps(JObj(<<"project_name", "description", "contracts">>,
               <<JStr("Empty"), JStr("nothing yet"), JList(<<>>)>>))

PNoFunctions ==
    json_dumps(JObj(<<"project_name", "description", "status", "contracts">>,
               <<JStr("Bare"), JStr("custom"), JStr(TESTING),
                 JList(<<AContract(JNull, <<>>)>>)>>))

\* Two contracts, and two entries in every list of the second one.
AnotherInput ==
    JObj(<<"name", "type", "description">>,
         <<JStr("amount"), JStr("uint256"), JStr("how many")>>)

TransferFunction ==
    JObj(<<"name", "description", "inputs", "outputs", "conditions">>,
         <<JStr("transfer"), JStr("moves tokens"), JList(<<AnInput, AnotherInput>>),
           JList(<<JObj(<<"type", "description">>, <<JStr("bool"), JStr("done")>>),
                   JObj(<<"type", "description">>, <<JStr("uint256"), JStr("balance left")>>)>>),
           JList(<<JStr("not paused"), JStr("balance suffices")>>)>>)

VaultContract ==
    JObj(<<"name", "description", "erc_template", "dependencies", "constructor",
           "functions">>,
         <<JStr("Vault"), JStr("holds the tokens"), JStr("ERC-721"),
           JList(<<JStr("Ownable"), JStr("Pausable")>>),
           JObj(<<"description", "inputs">>,
                <<JStr("sets the owner"), JList(<<AnInput, AnotherInput>>)>>),
           JList(<<MintFunction, TransferFunction>>)>>)

PTwoContracts ==
    json_dumps(JObj(<<"project_name", "description", "contracts">>,
               <<JStr("Pair"), JStr("two contracts"),
                 JList(<<AContract(JStr("ERC-20"), <<MintFunction>>), VaultContract>>)>>))

PMissingName ==
    json_dumps(JObj(<<"description", "contracts">>,
               <<JStr("a token"), JList(<<AContract(JStr("ERC-20"), <<MintFunction>>)>>)>>))

PBadType ==
    json_dumps(JObj(<<"project_name", "description", "contracts">>,
               <<JNum("#1"), JStr("a token"), JList(<<>>)>>))

PBadNested ==
    json_dumps(JObj(<<"project_name", "description", "contracts">>,
               <<JStr("Coin"), JStr("a token"),
                 JList(<<AContract(JStr("ERC-20"), <<MintFunction, BrokenFunction>>)>>)>>))

PBadStatus ==
    json_dumps(JObj(<<"project_name", "description", "status", "contracts">>,
               <<JStr("Empty"), JStr("nothing yet"), JStr("shipped"), JList(<<>>)>>))

\* Cut off before the closing brace: not JSON.
PTruncated == SubSeq(PNoContracts, 1, Len(PNoContracts) - 1)

\* JSON, but a list where a mapping is needed.
PNotDict == <<"[", "]">>

ValidPayloads == {PFull, PDeployed, PNoContracts, PNoFunctions}
InvalidPayloads == {PMissingName, PBadType, PBadNested, PBadStatus, PTruncated, PNotDict}
Payloads == ValidPayloads \cup InvalidPayloads

Chatter == <<"Which", "standard?">>

Replies ==
    {Chatter}
      \cup {<<"PLAN_READY">> \o p : p \in {PFull, PDeployed, PNoFunctions, PMissingName}}
      \cup {<<Fence, "json">> \o PNoContracts \o <<Fence>>}
      \cup {<<"PLAN_READY", Fence>> \o PTruncated \o <<Fence>>}
      \cup {<<Fence>> \o PNoContracts \o <<Fence>>}

-----------------------------------------------------------------------------
(* The orchestrator's pure steps (agents/planning_agent.py).               *)

Contains(ts, tok) == \E i \in 1..Len(ts) : ts[i] = tok

\* text.split(tok)[-1]: what follows the last occurrence.
AfterLast(ts, tok) ==
    LET i == CHOOSE i \in 1..Len(ts) :
                 ts[i] = tok /\ \A j \in (i+1)..Len(ts) : ts[j] # tok
    IN SubSeq(ts, i + 1, Len(ts))

\* text.split(tok)[1]: what lies between the first occurrence and the next
\* one, or the end of the text.
SecondPiece(ts, tok) ==
    LET i == CHOOSE i \in 1..Len(ts) :
                 ts[i] = tok /\ \A j \in 1..(i-1) : ts[j] # tok
        later == {j \in (i+1)..Len(ts) : ts[j] = tok}
        stop == IF later = {} THEN Len(ts) + 1
                ELSE CHOOSE j \in later : \A k \in later : j <= k
    IN SubSeq(ts, i + 1, stop - 1)

\* The text extract_plan hands to json.loads.
JsonStr(last_message) ==
    LET s1 == IF Contains(last_message, "PLAN_READY")
              THEN AfterLast(last_message, "PLAN_READY")
              ELSE last_message
        s2 == IF Contains(s1, Fence) THEN SecondPiece(s1, Fence) ELSE s1
    IN IF Contains(s1, Fence) /\ s2 # <<>> /\ Head(s2) = "json" THEN Tail(s2) ELSE s2

\* extract_plan: final_plan, or NoPlan where the except branch is taken.
extract_plan(last_message) ==
    LET r == json_loads(JsonStr(last_message))
    IN IF r.ok /\ SmartContractPlanOk(r.val) THEN model_dump(r.val) ELSE NoPlan

\* Variant with a fault: only the sentinel is looked for.
should_continue_sentinel_only(last_message) == Contains(last_message, "PLAN_READY")

\* should_continue, with plan_ready as chatbot has just set it.
should_continue(last_message) ==
    \/ Contains(last_message, "PLAN_READY")
    \/ \E i \in 1..(Len(last_message) - 1) :
           last_message[i] = Fence /\ last_message[i + 1] = "json"

\* final_plan after one app.invoke(state) whose reply is last_message.
FinalPlan(last_message) ==
    IF should_continue(last_message) THEN extract_plan(last_message) ELSE NoPlan

\* build_graph: the entry point is chatbot; from chatbot the conditional
\* edge goes where should_continue says (human_input is END); from
\* extract_plan the edge goes to END.
NextNodeRetrying(n, content) ==
    CASE n = "chatbot" -> IF should_continue(content) THEN "extract_plan" ELSE "END"
      [] OTHER -> IF extract_plan(content) = NoPlan THEN "chatbot" ELSE "END"

NextNode(n, content) ==
    CASE n = "chatbot" -> IF should_continue(content) THEN "extract_plan" ELSE "END"
      [] OTHER -> "END"

\* The steps app.invoke takes before it raises GraphRecursionError
\* (langgraph's default recursion_limit).
recursion_limit == 25

\* The nodes one app.invoke runs, in order, where the completion answers
\* content.
RECURSIVE Walk(_, _, _)
Walk(n, content, steps) ==
    IF n = "END" \/ steps = 0 THEN <<>>
    ELSE <<n>> \o Walk(NextNode(n, content), content, steps - 1)

GraphPath(content) == Walk("chatbot", content, recursion_limit)

-----------------------------------------------------------------------------
(* The tools' pure part (agents/planning_tools.py): parse, force the       *)
(* status, validate.                                                        *)

\* Variant with a fault: the status of the payload is kept.
ToolPlanKeepStatus(plan_json, status) ==
    LET r == json_loads(plan_json)
    IN IF r.ok /\ SmartContractPlanOk(r.val) THEN model_dump(r.val) ELSE NoPlan

\* Variant with a fault: the payload is saved as parsed, without building
\* the SmartContractPlan.
ToolPlanUnvalidated(plan_json, status) ==
    LET r == json_loads(plan_json)
    IN IF r.ok /\ r.val.t = "obj"
       THEN SetKey(r.val, "status", JStr(status))
       ELSE NoPlan

\* save_plan_draft / publish_final_plan up to plan.model_dump(): the plan
\* to save, or NoPlan where one of the except branches is taken
\* (raw["status"] = ... raises TypeError on anything but a mapping).
ToolPlan(plan_json, status) ==
    LET r == json_loads(plan_json)
        raw == SetKey(r.val, "status", JStr(status))
    IN IF r.ok /\ r.val.t = "obj" /\ SmartContractPlanOk(raw)
       THEN model_dump(raw)
       ELSE NoPlan

\* str(e) of what a client call raises.
StoreError == "<store error>"

\* str(e) of the exception the tools' try block raises before any store
\* call: a JSONDecodeError, the TypeError of raw["status"] = ... on what is
\* not a mapping, or the ValidationError with its fields.
ToolError(plan_json, status) ==
    LET r == json_loads(plan_json)
    IN IF ~r.ok THEN <<"<JSONDecodeError>">>
       ELSE IF r.val.t # "obj" THEN <<"<TypeError>">>
       ELSE ErrorFields(SetKey(r.val, "status", JStr(status)))

\* The text a saving tool returns from its except branches.
ToolErrorText(o, invalid_json, e) ==
    CASE o = "save_draft" /\ invalid_json -> <<"Invalid JSON. Could not save draft:">> \o e
      [] o = "save_draft" -> <<"Could not save draft:">> \o e
      [] o = "publish" /\ invalid_json -> <<"Invalid JSON: could not publish:">> \o e
      [] OTHER -> <<"Could not publish plan:">> \o e

\* The text a saving tool, or approve_plan, returns after save_plan.
SavedText(o, p) ==
    CASE o = "save_draft" -> <<"Draft saved successfully.", Get(p, "status").s>>
      [] o = "publish" -> <<"Plan published successfully!", Get(p, "project_name").s,
                            Get(p, "status").s>>
      [] OTHER -> <<"Plan approved.", Get(p, "project_name").s>>

\* What a saving tool has returned when it ends before any store call.
RefusedText(o, plan_json, status) ==
    <<ToolErrorText(o, ~json_loads(plan_json).ok, ToolError(plan_json, status))>>

\* validate_plan up to SmartContractPlan(**raw): the plan as the schema
\* builds it (the status of the payload is kept, draft where it has none),
\* or NoPlan where one of the except branches is taken.
ValidatedPlan(plan_json) ==
    LET r == json_loads(plan_json)
    IN IF r.ok /\ SmartContractPlanOk(r.val) THEN model_dump(r.val) ELSE NoPlan

\* One line of validate_plan's summary: the contract's name, its template
\* or custom, and the number of its functions.
ContractSummary(c) ==
    <<Get(c, "name").s,
      IF Get(c, "erc_template").t = "str" /\ Get(c, "erc_template").s # ""
      THEN Get(c, "erc_template").s ELSE "custom",
      ToString(Len(Items(c, "functions")))>>

RECURSIVE ContractSummaries(_)
ContractSummaries(cs) ==
    IF cs = <<>> THEN <<>>
    ELSE ContractSummary(Head(cs)) \o ContractSummaries(Tail(cs))

\* The text validate_plan returns.
ValidateText(plan_json) ==
    LET r == json_loads(plan_json)
        p == ValidatedPlan(plan_json)
    IN IF ~r.ok THEN <<"Invalid JSON:", "<JSONDecodeError>">>
       ELSE IF r.val.t # "obj" THEN <<"Validation failed:", "<TypeError>">>
       ELSE IF p = NoPlan THEN <<"Validation failed:">> \o ErrorFields(r.val)
       ELSE <<"Plan is valid.", Get(p, "project_name").s, Get(p, "status").s>>
                \o ContractSummaries(Items(p, "contracts"))

-----------------------------------------------------------------------------
(* get_erc_standard (agents/planning_tools.py).  A standard's name is a    *)
(* sequence of characters.                                                  *)

\* The keys of ERC_STANDARDS, in the order of the dict.
ERC_STANDARDS ==
    << <<"E", "R", "C", "-", "2", "0">>,
       <<"E", "R", "C", "-", "7", "2", "1">>,
       <<"E", "R", "C", "-", "1", "1", "5", "5">> >>

\* str.upper on one character.
UpperChar(ch) ==
    CASE ch = "e" -> "E"
      [] ch = "r" -> "R"
      [] ch = "c" -> "C"
      [] ch = "o" -> "O"
      [] ch = "w" -> "W"
      [] ch = "n" -> "N"
      [] OTHER -> ch

upper(name) == [i \in 1..Len(name) |-> UpperChar(name[i])]

\* str.replace("ERC", "ERC-"): every occurrence, from the left, without
\* overlap.
RECURSIVE replace_ERC(_)
replace_ERC(name) ==
    IF Len(name) >= 3 /\ SubSeq(name, 1, 3) = <<"E", "R", "C">>
    THEN <<"E", "R", "C", "-">> \o replace_ERC(SubSeq(name, 4, Len(name)))
    ELSE IF name = <<>> THEN <<>>
    ELSE <<Head(name)>> \o replace_ERC(Tail(name))

\* str.strip(): the spaces at both ends go.
RECURSIVE strip(_)
strip(name) ==
    IF name # <<>> /\ Head(name) = " " THEN strip(Tail(name))
    ELSE IF name # <<>> /\ name[Len(name)] = " " THEN strip(SubSeq(name, 1, Len(name) - 1))
    ELSE name

\* standard_name.upper().replace("ERC", "ERC-").strip()
StandardKey(standard_name) == strip(replace_ERC(upper(standard_name)))

IsStandard(key) == \E i \in 1..Len(ERC_STANDARDS) : ERC_STANDARDS[i] = key

\* The text get_erc_standard returns: the record of the standard under the
\* name as the caller spelt it, or the text that lists the keys.
ErcText(standard_name) ==
    IF IsStandard(StandardKey(standard_name))
    THEN <<"standard:">> \o standard_name \o <<"record of">> \o StandardKey(standard_name)
    ELSE <<"Unknown standard">> \o standard_name \o <<"Available standards:">>
             \o ERC_STANDARDS[1] \o <<",">> \o ERC_STANDARDS[2] \o <<",">> \o ERC_STANDARDS[3]

\* The names the agent may pass.
StandardNames ==
    { <<"E", "R", "C", "-", "2", "0">>,
      <<"e", "r", "c", "-", "2", "0">>,
      <<"E", "R", "C", "2", "0">>,
      <<"e", "r", "c", "2", "0">>,
      <<" ", "e", "r", "c", "7", "2", "1", " ">>,
      <<"o", "w", "n">> }

\* The reasoning notes the agent may save.
Notes == {"chose ERC-20", "no supply cap"}

\* "\n---\n".join(existing_notes)
RECURSIVE join(_)
join(notes) ==
    IF notes = <<>> THEN <<>>
    ELSE IF Len(notes) = 1 THEN <<Head(notes)>>
    ELSE <<Head(notes), "---">> \o join(Tail(notes))

\* The user_context block save_reasoning_note writes.
NotesText(notes) == <<"Reasoning notes from this session:">> \o join(notes)

\* get_from_global_memory: the first block labelled global_contract_plan
\* whose value is not the sentinel, parsed; NoPlan for None.
get_from_global_memory(bs) ==
    IF \E i \in 1..Len(bs) : bs[i].label = "global_contract_plan" /\ bs[i].value # <<"No plan yet.">>
    THEN json_loads(bs[CHOOSE i \in 1..Len(bs) :
                           /\ bs[i].label = "global_contract_plan" /\ bs[i].value # <<"No plan yet.">>
                           /\ \A j \in 1..(i-1) :
                                  ~(bs[j].label = "global_contract_plan" /\ bs[j].value # <<"No plan yet.">>)].value).val
    ELSE NoPlan

-----------------------------------------------------------------------------
(* State.  The Letta server holds agents (each with its own current_plan   *)
(* and user_context blocks) and standalone blocks; an id is a position in  *)
(* the list, and list() returns the entries in creation order.  Each       *)
(* worker is one process running one operation, one client call per step.  *)

VARIABLES
    agents,     \* the server's agents: [name, current_plan, user_context]
    blocks,     \* the server's standalone blocks: [label, value]
    apiAgent,   \* api.py's module-level memory_manager.agent (0: not started)
    pc,         \* where each worker stands in its operation
    op,         \* the operation each worker runs, or ran last
    plan,       \* the plan the operation is to save (a JSON value, or NoPlan)
    agentId,    \* self.agent of the worker's MemoryManager (0: none yet)
    blockId,    \* global_block in save_to_global_memory (0: none yet)
    result,     \* how the worker's last operation ended
    arg,        \* the argument of the worker's tool call (a text)
    out,        \* the texts the last step returned or printed, in order
    last_message, \* state["messages"][-1].content after the last app.invoke
    node,       \* the last graph node that ran in it: chatbot or extract_plan
    existing_notes, \* existing_notes in save_reasoning_note
    pre,        \* the server's contents when the last operation began
    prev,       \* the tool call before the last one, where the last repeats it
    hist        \* the tool calls so far: the notes saved, whether a save has
                \* succeeded, the plan of the last one, whether one has raised

vars == <<agents, blocks, apiAgent, pc, op, plan, agentId, blockId, result,
          arg, out, last_message, node, existing_notes, pre, prev, hist>>

\* What an operation says and what the conversation stands at.
io == <<arg, out, last_message, node, existing_notes>>

AGENT_NAME == "partyhat-planning-agent"
GLOBAL_LABEL == "global_contract_plan"
Sentinel == <<"No plan yet.">>
ContextSentinel == <<"No user context yet.">>

Tools == {"save_draft", "publish"}

\* The operations that are tools of the agent: get_current_plan,
\* save_plan_draft, get_erc_standard, validate_plan, publish_final_plan and
\* save_reasoning_note.
PLANNING_TOOLS == {"read", "save_draft", "erc", "validate", "publish", "note"}

\* The first entry a "for x in list: if match: return x" loop returns, 0 if
\* the loop falls through.
FirstAgent(as, name) ==
    IF \E i \in 1..Len(as) : as[i].name = name
    THEN CHOOSE i \in 1..Len(as) :
             as[i].name = name /\ \A j \in 1..(i-1) : as[j].name # name
    ELSE 0

FirstBlock(bs, label) ==
    IF \E i \in 1..Len(bs) : bs[i].label = label
    THEN CHOOSE i \in 1..Len(bs) :
             bs[i].label = label /\ \A j \in 1..(i-1) : bs[j].label # label
    ELSE 0

\* What a reader of each tier sees; the empty text where nothing exists.
SessionValue(as) ==
    IF FirstAgent(as, AGENT_NAME) = 0 THEN <<>>
    ELSE as[FirstAgent(as, AGENT_NAME)].current_plan

GlobalValue(bs) ==
    IF FirstBlock(bs, GLOBAL_LABEL) = 0 THEN <<>>
    ELSE bs[FirstBlock(bs, GLOBAL_LABEL)].value

\* The status of a stored text: "" where it holds no plan.
StatusOfText(ts) ==
    IF json_loads(ts).ok /\ HasKey(json_loads(ts).val, "status")
    THEN Get(json_loads(ts).val, "status").s
    ELSE ""

Init ==
    /\ agents = <<>>
    /\ blocks = <<[label |-> "persona", value |-> <<"Which">>]>>
    /\ apiAgent = 0
    /\ pc = [w \in Workers |-> "idle"]
    /\ op = [w \in Workers |-> "none"]
    /\ plan = [w \in Workers |-> NoPlan]
    /\ agentId = [w \in Workers |-> 0]
    /\ blockId = [w \in Workers |-> 0]
    /\ result = [w \in Workers |-> "none"]
    /\ arg = [w \in Workers |-> <<>>]
    /\ out = [w \in Workers |-> <<>>]
    /\ last_message = [w \in Workers |-> <<>>]
    /\ node = [w \in Workers |-> "none"]
    /\ existing_notes = [w \in Workers |-> <<>>]
    /\ pre = [agents |-> <<>>, blocks |-> <<[label |-> "persona", value |-> <<"Which">>]>>]
    /\ prev = [op |-> "none", arg |-> <<>>, out |-> <<>>, result |-> "none"]
    /\ hist = [noted |-> {}, saved |-> FALSE, last |-> NoPlan, failed |-> FALSE]

\* The call of an operation: its argument a, and the texts it has given so
\* far; a conversation has not begun.
Call(w, a, texts) ==
    /\ arg' = [arg EXCEPT ![w] = a]
    /\ out' = [out EXCEPT ![w] = texts]
    /\ last_message' = [last_message EXCEPT ![w] = <<>>]
    /\ node' = [node EXCEPT ![w] = "none"]
    /\ existing_notes' = [existing_notes EXCEPT ![w] = <<>>]

\* An operation of worker w begins: o with plan p, at step at.
Start(w, o, p, at) ==
    /\ pc[w] = "idle"
    /\ pc' = [pc EXCEPT ![w] = at]
    /\ op' = [op EXCEPT ![w] = o]
    /\ plan' = [plan EXCEPT ![w] = p]
    /\ agentId' = [agentId EXCEPT ![w] = IF o = "approve" THEN apiAgent ELSE 0]
    /\ blockId' = [blockId EXCEPT ![w] = 0]
    /\ result' = [result EXCEPT ![w] = IF at = "idle" THEN "fail" ELSE "none"]
    /\ UNCHANGED <<agents, blocks, apiAgent>>

\* An operation of worker w ends with result r.
Finish(w, r) ==
    /\ pc' = [pc EXCEPT ![w] = "idle"]
    /\ result' = [result EXCEPT ![w] = r]
    /\ agentId' = [agentId EXCEPT ![w] = 0]
    /\ blockId' = [blockId EXCEPT ![w] = 0]

-----------------------------------------------------------------------------
(* Operations.                                                              *)

\* save_plan_draft(plan_json): a payload that does not parse or validate is
\* answered with the error text before any store call; otherwise
\* MemoryManager() and save_plan follow.
save_plan_draft(w, plan_json) ==
    LET p == ToolPlan(plan_json, DRAFT)
    IN /\ Start(w, "save_draft", p, IF p = NoPlan THEN "idle" ELSE "mm_list")
       /\ Call(w, plan_json,
               IF p = NoPlan THEN RefusedText("save_draft", plan_json, DRAFT) ELSE <<>>)

\* publish_final_plan(plan_json): the same with status ready.
publish_final_plan(w, plan_json) ==
    LET p == ToolPlan(plan_json, READY)
    IN /\ Start(w, "publish", p, IF p = NoPlan THEN "idle" ELSE "mm_list")
       /\ Call(w, plan_json,
               IF p = NoPlan THEN RefusedText("publish", plan_json, READY) ELSE <<>>)

\* api.py is imported: memory_manager = MemoryManager().
api_start(w) ==
    /\ apiAgent = 0
    /\ \A v \in Workers : op[v] = "api_start" => pc[v] = "idle"
    /\ Start(w, "api_start", NoPlan, "mm_list")
    /\ Call(w, <<>>, <<>>)

\* POST /plan/approve on the running API.
approve_plan(w) ==
    /\ apiAgent # 0
    /\ Start(w, "approve", NoPlan, "get_plan")
    /\ Call(w, <<>>, <<>>)

\* run(): the opening app.invoke comes first.
run(w) == Start(w, "run", NoPlan, "chat_open") /\ Call(w, <<>>, <<>>)

\* update_plan(): MemoryManager() and get_plan come first.
update_plan(w) == Start(w, "update", NoPlan, "mm_list") /\ Call(w, <<>>, <<>>)

\* MemoryManager.get_plan as a value: the parsed current_plan block, NoPlan
\* for None.
get_plan(a) ==
    IF a.current_plan # Sentinel THEN json_loads(a.current_plan).val ELSE NoPlan

\* A tool that makes no store call: it has returned text with result r.
Answer(w, o, p, r, a, text) ==
    /\ pc[w] = "idle"
    /\ op' = [op EXCEPT ![w] = o]
    /\ plan' = [plan EXCEPT ![w] = p]
    /\ result' = [result EXCEPT ![w] = r]
    /\ agentId' = [agentId EXCEPT ![w] = 0]
    /\ blockId' = [blockId EXCEPT ![w] = 0]
    /\ Call(w, a, <<text>>)
    /\ UNCHANGED <<agents, blocks, apiAgent, pc>>

\* get_current_plan(): MemoryManager() and get_plan.
get_current_plan(w) == Start(w, "read", NoPlan, "mm_list") /\ Call(w, <<>>, <<>>)

\* Variant with a fault: validate_plan saves the plan it has built.
validate_plan_saving(w, plan_json) ==
    LET p == ValidatedPlan(plan_json)
    IN /\ Start(w, "validate", p, IF p = NoPlan THEN "idle" ELSE "mm_list")
       /\ Call(w, plan_json, <<ValidateText(plan_json)>>)

\* validate_plan(plan_json): parse and build the SmartContractPlan; nothing
\* is stored.
validate_plan(w, plan_json) ==
    LET p == ValidatedPlan(plan_json)
    IN Answer(w, "validate", p, IF p = NoPlan THEN "fail" ELSE "ok",
              plan_json, ValidateText(plan_json))

\* get_erc_standard(standard_name): a lookup in ERC_STANDARDS.
get_erc_standard(w, standard_name) ==
    Answer(w, "erc", NoPlan,
           IF IsStandard(StandardKey(standard_name)) THEN "ok" ELSE "fail",
           standard_name, ErcText(standard_name))

\* save_reasoning_note(note): MemoryManager() comes first.
save_reasoning_note(w, note) ==
    Start(w, "note", NoPlan, "mm_list") /\ Call(w, <<note>>, <<>>)

\* save_reasoning_note, the inner try: existing_notes is the plan's
\* "_reasoning_notes" member where get_plan gives a plan that has one, and
\* stays empty otherwise, also when get_plan raises.
note_get(w) ==
    /\ pc[w] = "note_get"
    /\ \E raised \in BOOLEAN :
        LET existing == get_plan(agents[agentId[w]])
        IN existing_notes' =
               [existing_notes EXCEPT ![w] =
                   IF ~raised /\ existing # NoPlan /\ IsList(existing, "_reasoning_notes")
                   THEN [i \in 1..Len(Items(existing, "_reasoning_notes")) |->
                             Items(existing, "_reasoning_notes")[i].s]
                   ELSE <<>>]
    /\ pc' = [pc EXCEPT ![w] = "note_update"]
    /\ UNCHANGED <<agents, blocks, apiAgent, op, plan, agentId, blockId, result,
                   arg, out, last_message, node>>

\* Variant with a fault: the note is added to the notes the user_context
\* block holds.
note_update_appending(w) ==
    /\ pc[w] = "note_update"
    /\ agents' = [agents EXCEPT ![agentId[w]].user_context =
                     IF @ = ContextSentinel THEN NotesText(arg[w])
                     ELSE @ \o <<"---">> \o arg[w]]
    /\ Finish(w, "ok")
    /\ out' = [out EXCEPT ![w] = <<<<"Reasoning note saved:">> \o arg[w]>>]
    /\ UNCHANGED <<blocks, apiAgent, op, plan, arg, last_message, node, existing_notes>>

\* save_reasoning_note, the rest: existing_notes.append(note) and
\* update_user_context with the joined notes.
note_update(w) ==
    /\ pc[w] = "note_update"
    /\ agents' = [agents EXCEPT ![agentId[w]].user_context =
                     NotesText(existing_notes[w] \o arg[w])]
    /\ Finish(w, "ok")
    /\ out' = [out EXCEPT ![w] = <<<<"Reasoning note saved:">> \o arg[w]>>]
    /\ UNCHANGED <<blocks, apiAgent, op, plan, arg, last_message, node, existing_notes>>

\* Where an operation goes on once its MemoryManager is built.
AfterInit(o) ==
    CASE o \in {"update", "read"} -> "get_plan"
      [] o = "api_start" -> "api_bind"
      [] o = "note" -> "note_get"
      [] OTHER -> "sp_agent"

\* _get_or_create_agent, first half: self.client.agents.list() and the loop.
agents_list(w) ==
    /\ pc[w] = "mm_list"
    /\ LET a == FirstAgent(agents, AGENT_NAME)
       IN /\ agentId' = [agentId EXCEPT ![w] = a]
          /\ pc' = [pc EXCEPT ![w] = IF a = 0 THEN "mm_create" ELSE AfterInit(op[w])]
    /\ UNCHANGED <<agents, blocks, apiAgent, op, plan, blockId, result, io>>

\* _get_or_create_agent, second half: self.client.agents.create(...).
agents_create(w) ==
    /\ pc[w] = "mm_create"
    /\ agents' = Append(agents, [name |-> AGENT_NAME,
                                 current_plan |-> Sentinel,
                                 user_context |-> ContextSentinel])
    /\ agentId' = [agentId EXCEPT ![w] = Len(agents) + 1]
    /\ pc' = [pc EXCEPT ![w] = AfterInit(op[w])]
    /\ UNCHANGED <<blocks, apiAgent, op, plan, blockId, result, io>>

\* memory_manager = MemoryManager() has returned: the API serves requests.
api_bind(w) ==
    /\ pc[w] = "api_bind"
    /\ apiAgent' = agentId[w]
    /\ Finish(w, "ok")
    /\ UNCHANGED <<agents, blocks, op, plan, io>>

\* What each caller of get_plan says once it has the answer.
PlanFoundText(o, existing) ==
    CASE o = "read" /\ existing # NoPlan -> <<<<"Current plan found:">> \o json_dumps(existing)>>
      [] o = "read" -> <<<<"No plan exists yet. This is a fresh start.">>>>
      [] o = "update" /\ existing # NoPlan ->
            <<<<"Found existing plan:", Get(existing, "project_name").s>>>>
      [] o = "update" -> <<<<"No existing plan found in memory. Run the planning agent first!">>>>
      [] existing = NoPlan -> <<<<"No plan found to approve">>>>
      [] OTHER -> <<<<"Contract is deployed on-chain and cannot be modified">>>>

\* Variant with a fault: approve_plan does not look at the status.
get_plan_step_any_status(w) ==
    /\ pc[w] = "get_plan"
    /\ LET existing == get_plan(agents[agentId[w]])
       IN IF existing = NoPlan
          THEN /\ Finish(w, IF op[w] = "approve" THEN "fail" ELSE "noplan")
               /\ out' = [out EXCEPT ![w] = PlanFoundText(op[w], existing)]
               /\ UNCHANGED plan
          ELSE IF op[w] = "approve"
          THEN /\ plan' = [plan EXCEPT ![w] = SetKey(existing, "status", JStr(READY))]
               /\ pc' = [pc EXCEPT ![w] = "sp_agent"]
               /\ UNCHANGED <<agentId, blockId, result, out>>
          ELSE /\ pc' = [pc EXCEPT ![w] = "chat_open"]
               /\ UNCHANGED <<plan, agentId, blockId, result, out>>
    /\ UNCHANGED <<agents, blocks, apiAgent, op, arg, last_message, node, existing_notes>>

\* get_plan and what its caller does with the answer: approve_plan answers
\* 404 or 400 or sets the status and goes on to save_plan; update_plan
\* returns or starts the conversation; get_current_plan returns the plan or
\* the text that there is none.
get_plan_step(w) ==
    /\ pc[w] = "get_plan"
    /\ LET existing == get_plan(agents[agentId[w]])
       IN CASE op[w] = "approve" ->
                 IF existing = NoPlan \/ Get(existing, "status") = JStr(DEPLOYED)
                 THEN /\ Finish(w, "fail")
                      /\ out' = [out EXCEPT ![w] = PlanFoundText(op[w], existing)]
                      /\ UNCHANGED plan
                 ELSE /\ plan' = [plan EXCEPT ![w] = SetKey(existing, "status", JStr(READY))]
                      /\ pc' = [pc EXCEPT ![w] = "sp_agent"]
                      /\ UNCHANGED <<agentId, blockId, result, out>>
            [] op[w] = "read" ->
                 /\ Finish(w, "ok")
                 /\ out' = [out EXCEPT ![w] = PlanFoundText(op[w], existing)]
                 /\ UNCHANGED plan
            [] OTHER ->
                 IF existing = NoPlan
                 THEN /\ Finish(w, "noplan")
                      /\ out' = [out EXCEPT ![w] = PlanFoundText(op[w], existing)]
                      /\ UNCHANGED plan
                 ELSE /\ pc' = [pc EXCEPT ![w] = "chat_open"]
                      /\ out' = [out EXCEPT ![w] = PlanFoundText(op[w], existing)]
                      /\ UNCHANGED <<plan, agentId, blockId, result>>
    /\ UNCHANGED <<agents, blocks, apiAgent, op, arg, last_message, node, existing_notes>>

\* What one turn prints: extract_plan's "Could not parse plan: ..." when its
\* except branch is taken, then the reply (the opening reply always, a
\* later one unless it holds PLAN_READY), then the plan when the loop has
\* one to save.
ParseErrorText(content) ==
    LET r == json_loads(JsonStr(content))
    IN <<"Could not parse plan:">> \o
           (IF ~r.ok THEN <<"<JSONDecodeError>">>
            ELSE IF r.val.t # "obj" THEN <<"<TypeError>">>
            ELSE ErrorFields(r.val))

Printed(opening, content, final_plan) ==
    (IF should_continue(content) /\ final_plan = NoPlan
     THEN <<ParseErrorText(content)>> ELSE <<>>)
    \o (IF opening \/ ~Contains(content, "PLAN_READY")
        THEN <<<<"Agent:">> \o content>> ELSE <<>>)
    \o (IF ~opening /\ final_plan # NoPlan
        THEN <<<<"Plan Generated!">> \o json_dumps(final_plan)>> ELSE <<>>)

\* One app.invoke(state): chatbot, should_continue, extract_plan.  After the
\* opening turn a final_plan ends the function (neither while loop is
\* entered); inside the loop a final_plan is saved, by a new MemoryManager
\* in run() and by the one at hand in update_plan().
invoke(w) ==
    /\ pc[w] \in {"chat_open", "chat_loop"}
    /\ \E reply \in Replies :
        LET final_plan == FinalPlan(reply)
        IN /\ last_message' = [last_message EXCEPT ![w] = reply]
           /\ node' = [node EXCEPT ![w] = GraphPath(reply)[Len(GraphPath(reply))]]
           /\ out' = [out EXCEPT ![w] = Printed(pc[w] = "chat_open", reply, final_plan)]
           /\ IF final_plan = NoPlan
              THEN /\ pc' = [pc EXCEPT ![w] = "chat_loop"]
                   /\ UNCHANGED <<plan, agentId, blockId, result>>
              ELSE IF pc[w] = "chat_open"
              THEN /\ plan' = [plan EXCEPT ![w] = final_plan]
                   /\ Finish(w, "unsaved")
              ELSE /\ plan' = [plan EXCEPT ![w] = final_plan]
                   /\ pc' = [pc EXCEPT ![w] = IF op[w] = "run" THEN "mm_list" ELSE "sp_agent"]
                   /\ UNCHANGED <<agentId, blockId, result>>
    /\ UNCHANGED <<agents, blocks, apiAgent, op, arg, existing_notes>>

\* llm.invoke raises inside the chatbot node (the completion service cannot
\* be reached): app.invoke raises, and neither run() nor update_plan()
\* catches it.
completion_fault(w) ==
    /\ pc[w] \in {"chat_open", "chat_loop"}
    /\ Finish(w, "raised")
    /\ last_message' = [last_message EXCEPT ![w] = <<>>]
    /\ node' = [node EXCEPT ![w] = "none"]
    /\ UNCHANGED <<agents, blocks, apiAgent, op, plan, arg, out, existing_notes>>

\* The user types quit.
quit(w) ==
    /\ pc[w] = "chat_loop"
    /\ Finish(w, "quit")
    /\ out' = [out EXCEPT ![w] = IF op[w] = "run" THEN <<<<"See you later!">>>> ELSE <<>>]
    /\ UNCHANGED <<agents, blocks, apiAgent, op, plan, arg, last_message, node, existing_notes>>

\* Variant with a fault: the session tier is not written.
save_plan_agent_skipped(w) ==
    /\ pc[w] = "sp_agent"
    /\ pc' = [pc EXCEPT ![w] = "sg_list"]
    /\ UNCHANGED <<agents, blocks, apiAgent, op, plan, agentId, blockId, result, io>>

\* save_plan, first call: agents.blocks.update("current_plan", ...).
save_plan_agent(w) ==
    /\ pc[w] = "sp_agent"
    /\ agents' = [agents EXCEPT ![agentId[w]].current_plan = json_dumps(plan[w])]
    /\ pc' = [pc EXCEPT ![w] = "sg_list"]
    /\ UNCHANGED <<blocks, apiAgent, op, plan, agentId, blockId, result, io>>

\* _get_or_create_global_block, first half: blocks.list() and the loop.
blocks_list(w) ==
    /\ pc[w] = "sg_list"
    /\ LET b == FirstBlock(blocks, GLOBAL_LABEL)
       IN /\ blockId' = [blockId EXCEPT ![w] = b]
          /\ pc' = [pc EXCEPT ![w] = IF b = 0 THEN "sg_create" ELSE "sg_update"]
    /\ UNCHANGED <<agents, blocks, apiAgent, op, plan, agentId, result, io>>

\* _get_or_create_global_block, second half: blocks.create(...).
blocks_create(w) ==
    /\ pc[w] = "sg_create"
    /\ blocks' = Append(blocks, [label |-> GLOBAL_LABEL, value |-> Sentinel])
    /\ blockId' = [blockId EXCEPT ![w] = Len(blocks) + 1]
    /\ pc' = [pc EXCEPT ![w] = "sg_update"]
    /\ UNCHANGED <<agents, apiAgent, op, plan, agentId, result, io>>

\* Variant with a fault: save_to_global_memory reports success without
\* writing the block.
blocks_update_unwritten(w) ==
    /\ pc[w] = "sg_update"
    /\ Finish(w, "ok")
    /\ out' = [out EXCEPT ![w] = IF op[w] \in Tools \cup {"approve"}
                                  THEN <<SavedText(op[w], plan[w])>>
                                  ELSE out[w]]
    /\ UNCHANGED <<agents, blocks, apiAgent, op, plan, arg, last_message, node, existing_notes>>

\* save_to_global_memory: blocks.update(global_block.id, value=plan_json);
\* save_plan returns and the operation reports success.
blocks_update(w) ==
    /\ pc[w] = "sg_update"
    /\ blocks' = [blocks EXCEPT ![blockId[w]].value = json_dumps(plan[w])]
    /\ Finish(w, "ok")
    /\ out' = [out EXCEPT ![w] = IF op[w] \in Tools \cup {"approve"}
                                  THEN <<SavedText(op[w], plan[w])>>
                                  ELSE out[w]]
    /\ UNCHANGED <<agents, apiAgent, op, plan, arg, last_message, node, existing_notes>>

StoreCalls == {"mm_list", "mm_create", "get_plan", "sp_agent", "sg_list",
               "sg_create", "sg_update", "note_update"}

\* The text of an operation's outermost except branch for a client call
\* that raised.
RaisedText(o) ==
    CASE o \in Tools -> <<ToolErrorText(o, FALSE, <<StoreError>>)>>
      [] o = "read" -> <<<<"Could not retrieve plan:", StoreError>>>>
      [] o = "note" -> <<<<"Could not save reasoning note:", StoreError>>>>
      [] o = "approve" -> <<<<"Could not approve plan:", StoreError>>>>
      [] OTHER -> <<>>

\* Variant with a fault: the tools have no except branch.
store_fault_uncaught(w) ==
    /\ pc[w] \in StoreCalls
    /\ Finish(w, IF op[w] = "approve" THEN "http500" ELSE "raised")
    /\ out' = [out EXCEPT ![w] = <<>>]
    /\ UNCHANGED <<agents, blocks, apiAgent, op, plan, arg, last_message, node, existing_notes>>

\* A client call raises (the store cannot be reached).  A tool returns the
\* error text and approve_plan answers 500; run() and update_plan() do not
\* catch it.
store_fault(w) ==
    /\ pc[w] \in StoreCalls
    /\ Finish(w, CASE op[w] \in PLANNING_TOOLS -> "fail"
                   [] op[w] = "approve" -> "http500"
                   [] OTHER -> "raised")
    /\ out' = [out EXCEPT ![w] = IF op[w] \in PLANNING_TOOLS \cup {"approve"}
                                  THEN RaisedText(op[w]) ELSE out[w]]
    /\ UNCHANGED <<agents, blocks, apiAgent, op, plan, arg, last_message, node, existing_notes>>

\* pre records the server's contents as each operation begins.
Remember == pre' = [agents |-> agents, blocks |-> blocks] /\ UNCHANGED <<prev, hist>>

\* A step inside an operation leaves the records of earlier calls alone.
Inside == UNCHANGED <<pre, prev, hist>>

\* One process at a time (worker 1), one operation after the other: the
\* tools, the API and the CLI entry points, then the steps of the operation
\* under way.
Next ==
    \/ (\E plan_json \in Payloads : save_plan_draft(1, plan_json)) /\ Remember
    \/ (\E plan_json \in Payloads : publish_final_plan(1, plan_json)) /\ Remember
    \/ api_start(1) /\ Remember
    \/ approve_plan(1) /\ Remember
    \/ run(1) /\ Remember
    \/ update_plan(1) /\ Remember
    \/ agents_list(1) /\ Inside
    \/ agents_create(1) /\ Inside
    \/ api_bind(1) /\ Inside
    \/ get_plan_step(1) /\ Inside
    \/ invoke(1) /\ Inside
    \/ completion_fault(1) /\ Inside
    \/ quit(1) /\ Inside
    \/ save_plan_agent(1) /\ Inside
    \/ blocks_list(1) /\ Inside
    \/ blocks_create(1) /\ Inside
    \/ blocks_update(1) /\ Inside
    \/ store_fault(1) /\ Inside

Spec == Init /\ [][Next]_vars

\* Several processes saving at once: each calls save_plan_draft or
\* publish_final_plan, and their client calls interleave.
ConcPayloads == {PFull, PNoContracts, PTruncated}

NextConc ==
    \/ \E w \in Workers : (\E plan_json \in ConcPayloads : save_plan_draft(w, plan_json)) /\ Inside
    \/ \E w \in Workers : (\E plan_json \in ConcPayloads : publish_final_plan(w, plan_json)) /\ Inside
    \/ \E w \in Workers : agents_list(w) /\ Inside
    \/ \E w \in Workers : agents_create(w) /\ Inside
    \/ \E w \in Workers : save_plan_agent(w) /\ Inside
    \/ \E w \in Workers : blocks_list(w) /\ Inside
    \/ \E w \in Workers : blocks_create(w) /\ Inside
    \/ \E w \in Workers : blocks_update(w) /\ Inside

SpecConc == Init /\ [][NextConc]_vars

\* The agent's tools called one after the other by one process (worker 1),
\* with client calls that may raise.  prev records the call before the one
\* begun where the new call repeats it (the same tool with the same
\* argument), hist what the calls so far have done.
ToolPayloads == {PNoContracts, PTwoContracts, PMissingName, PTruncated}

RememberCall ==
    /\ pre' = [agents |-> agents, blocks |-> blocks]
    /\ prev' = IF op'[1] = op[1] /\ arg'[1] = arg[1]
               THEN [op |-> op[1], arg |-> arg[1], out |-> out[1], result |-> result[1]]
               ELSE [op |-> "none", arg |-> <<>>, out |-> <<>>, result |-> "none"]
    /\ UNCHANGED hist

NextTools ==
    \/ get_current_plan(1) /\ RememberCall
    \/ (\E plan_json \in ToolPayloads : save_plan_draft(1, plan_json)) /\ RememberCall
    \/ (\E standard_name \in StandardNames : get_erc_standard(1, standard_name)) /\ RememberCall
    \/ (\E plan_json \in ToolPayloads : validate_plan(1, plan_json)) /\ RememberCall
    \/ (\E plan_json \in ToolPayloads : publish_final_plan(1, plan_json)) /\ RememberCall
    \/ (\E note \in Notes : save_reasoning_note(1, note)) /\ RememberCall
    \/ agents_list(1) /\ Inside
    \/ agents_create(1) /\ Inside
    \/ get_plan_step(1) /\ Inside
    \/ note_get(1) /\ Inside
    \/ /\ note_update(1)
       /\ hist' = [hist EXCEPT !.noted = @ \cup {arg[1][1]}]
       /\ UNCHANGED <<pre, prev>>
    \/ save_plan_agent(1) /\ Inside
    \/ blocks_list(1) /\ Inside
    \/ blocks_create(1) /\ Inside
    \/ /\ blocks_update(1)
       /\ hist' = [hist EXCEPT !.saved = TRUE, !.last = plan[1]]
       /\ UNCHANGED <<pre, prev>>
    \/ /\ store_fault(1)
       /\ hist' = [hist EXCEPT !.failed = @ \/ op[1] \in Tools]
       /\ UNCHANGED <<pre, prev>>

SpecTools == Init /\ [][NextTools]_vars

\* The deployment stage outside this program: it reads the plan in the
\* global block, deploys the contract and writes the plan back to the
\* global block with status deployed.  It knows nothing of the agent's
\* current_plan block.
deployment_stage ==
    /\ FirstBlock(blocks, GLOBAL_LABEL) # 0
    /\ StatusOfText(GlobalValue(blocks)) = READY
    /\ blocks' = [blocks EXCEPT ![FirstBlock(blocks, GLOBAL_LABEL)].value =
                      json_dumps(SetKey(json_loads(@).val, "status", JStr(DEPLOYED)))]
    /\ UNCHANGED <<agents, apiAgent, pc, op, plan, agentId, blockId, result, io>>

\* The API with a deployment stage behind it: plans are published and
\* approved by one process (worker 1), and the stage deploys what the
\* global block holds.
ApprovePayloads == {PFull, PNoContracts}

NextApprove ==
    \/ (\E plan_json \in ApprovePayloads : publish_final_plan(1, plan_json)) /\ Remember
    \/ api_start(1) /\ Remember
    \/ approve_plan(1) /\ Remember
    \/ agents_list(1) /\ Inside
    \/ agents_create(1) /\ Inside
    \/ api_bind(1) /\ Inside
    \/ get_plan_step(1) /\ Inside
    \/ save_plan_agent(1) /\ Inside
    \/ blocks_list(1) /\ Inside
    \/ blocks_create(1) /\ Inside
    \/ blocks_update(1) /\ Inside
    \/ deployment_stage /\ Inside

SpecApprove == Init /\ [][NextApprove]_vars

-----------------------------------------------------------------------------
(* Properties.                                                              *)

Done(w) == pc[w] = "idle" /\ result[w] # "none"

AgentsNamed(as) == {i \in 1..Len(as) : as[i].name = AGENT_NAME}
BlocksLabelled(bs) == {i \in 1..Len(bs) : bs[i].label = GLOBAL_LABEL}

\* Neither tier's plan text has changed since the operation began.
TiersUnchanged ==
    /\ SessionValue(agents) = SessionValue(pre.agents)
    /\ GlobalValue(blocks) = GlobalValue(pre.blocks)

\* C1: however the list and create calls of concurrent MemoryManager users
\* interleave, the server never holds two agents named
\* partyhat-planning-agent nor two blocks labelled global_contract_plan, and
\* two callers that have got their agent (their global block) hold the same
\* one.
C1_OneBlockPerLabel ==
    /\ Cardinality(AgentsNamed(agents)) <= 1
    /\ Cardinality(BlocksLabelled(blocks)) <= 1
    /\ \A v, w \in Workers :
        /\ (agentId[v] # 0 /\ agentId[w] # 0) => agentId[v] = agentId[w]
        /\ (blockId[v] # 0 /\ blockId[w] # 0) => blockId[v] = blockId[w]

\* A client call raised during the operation worker w has ended.
Faulted(w) ==
    \/ result[w] \in {"raised", "http500"}
    \/ op[w] \in Tools /\ result[w] = "fail" /\ plan[w] # NoPlan

\* C2: a save_plan_draft or publish_final_plan call made while both tiers
\* hold a deployed plan, and during which the store answers every call,
\* returns a failure and leaves both tiers as they were.
C2_DeployedRejectsTools ==
    \A w \in Workers :
        (/\ Done(w)
         /\ op[w] \in Tools
         /\ ~Faulted(w)
         /\ StatusOfText(SessionValue(pre.agents)) = DEPLOYED
         /\ StatusOfText(GlobalValue(pre.blocks)) = DEPLOYED)
        => (result[w] = "fail" /\ TiersUnchanged)

\* C3: an operation that sets out to save a plan whose status comes before
\* the status stored in the global tier, and during which the store answers
\* every call, is rejected and leaves both tiers as they were.  (Stated for
\* a stored status past ready: going from ready back to draft to edit and
\* approve again is the one backward move the data model speaks of.)
C3_EarlierStatusRejected ==
    \A w \in Workers :
        (/\ Done(w)
         /\ ~Faulted(w)
         /\ plan[w] # NoPlan
         /\ StatusRank(StatusOfText(GlobalValue(pre.blocks))) > StatusRank(READY)
         /\ StatusRank(Get(plan[w], "status").s)
              < StatusRank(StatusOfText(GlobalValue(pre.blocks))))
        => (result[w] # "ok" /\ TiersUnchanged)

\* C4: an operation that ends reporting its save_plan as done leaves the
\* session tier and the global tier both holding json.dumps of the plan it
\* saved; since a client call that raises leaves at least one tier without
\* it, this also says that such an operation is never reported as done.
C4_SaveWritesBothTiers ==
    \A w \in Workers :
        (Done(w) /\ result[w] = "ok" /\ op[w] \in Tools \cup {"approve", "run", "update"})
        => /\ plan[w] # NoPlan
           /\ SessionValue(agents) = json_dumps(plan[w])
           /\ GlobalValue(blocks) = json_dumps(plan[w])

\* C4, witness: a save reported done, over another plan that the store
\* held in its global tier.
C4_Witness ==
    /\ Done(1) /\ result[1] = "ok" /\ op[1] = "publish"
    /\ GlobalValue(pre.blocks) \notin {<<>>, Sentinel, json_dumps(plan[1])}
    /\ GlobalValue(blocks) = json_dumps(plan[1])

\* C5: run() or update_plan() that begins while both tiers hold a deployed
\* plan, and during which the store answers every call, does not save: it
\* ends without success and both tiers are as they were.
C5_DeployedRejectsFinalisation ==
    \A w \in Workers :
        (/\ Done(w)
         /\ op[w] \in {"run", "update"}
         /\ ~Faulted(w)
         /\ StatusOfText(SessionValue(pre.agents)) = DEPLOYED
         /\ StatusOfText(GlobalValue(pre.blocks)) = DEPLOYED)
        => (result[w] # "ok" /\ TiersUnchanged)

\* A plan with at least one contract, each contract with at least one
\* function.
HasContent(p) ==
    /\ Get(p, "contracts").items # <<>>
    /\ \A i \in 1..Len(Get(p, "contracts").items) :
           Get(Get(p, "contracts").items[i], "functions").items # <<>>

\* C6: publish_final_plan succeeds only for a plan with at least one
\* contract and no contract without functions.
C6_PublishNeedsContent ==
    \A w \in Workers :
        (Done(w) /\ op[w] = "publish" /\ result[w] = "ok") => HasContent(plan[w])

\* The initial sentinel or the text of a plan the schema accepts.
StoredOk(ts) ==
    \/ ts = Sentinel
    \/ json_loads(ts).ok /\ SmartContractPlanOk(json_loads(ts).val)

\* C7: every agent's current_plan block and every global_contract_plan
\* block holds the sentinel or the text of a schema-valid plan.
C7_OnlyValidPlansStored ==
    /\ \A i \in AgentsNamed(agents) : StoredOk(agents[i].current_plan)
    /\ \A i \in BlocksLabelled(blocks) : StoredOk(blocks[i].value)

\* C7, witness: plans are stored in both tiers and a payload the schema
\* rejects has just been refused.
C7_Witness ==
    /\ Done(1) /\ op[1] = "save_draft" /\ result[1] = "fail" /\ plan[1] = NoPlan
    /\ IsPlanText(SessionValue(agents))
    /\ IsPlanText(GlobalValue(blocks))

\* C8: when concurrent saves have all returned, at least one with success,
\* on a server with one agent and one global block, the global block and
\* the session block hold the same plan, which is one of those saved.
C8_ConcurrentSavesWhole ==
    (/\ \A w \in Workers : pc[w] = "idle"
     /\ \E w \in Workers : result[w] = "ok"
     /\ Cardinality(AgentsNamed(agents)) = 1
     /\ Cardinality(BlocksLabelled(blocks)) = 1)
    => /\ GlobalValue(blocks) = SessionValue(agents)
       /\ \E w \in Workers : result[w] = "ok" /\ GlobalValue(blocks) = json_dumps(plan[w])

\* C9: approve_plan on a session tier holding a deployed plan, or no plan,
\* fails and changes nothing on the server; on a session tier holding a plan
\* that is not deployed it succeeds unless a client call raises; and when it
\* succeeds both tiers hold the plan the session tier held, with status
\* ready.
C9_Approve ==
    \A w \in Workers :
        (Done(w) /\ op[w] = "approve")
        => LET before == SessionValue(pre.agents)
           IN /\ (before = Sentinel \/ StatusOfText(before) = DEPLOYED)
                    => (result[w] # "ok" /\ agents = pre.agents /\ blocks = pre.blocks)
              /\ (before # Sentinel /\ StatusOfText(before) # DEPLOYED /\ ~Faulted(w))
                    => result[w] = "ok"
              /\ result[w] = "ok"
                    => /\ plan[w] = SetKey(json_loads(before).val, "status", JStr(READY))
                       /\ SessionValue(agents) = json_dumps(plan[w])
                       /\ GlobalValue(blocks) = json_dumps(plan[w])

\* C9, witness: all three cases: approve of a draft, of a deployed plan, and
\* with no plan written.
C9_WitnessReady ==
    /\ Done(1) /\ op[1] = "approve" /\ result[1] = "ok"
    /\ StatusOfText(SessionValue(pre.agents)) = DRAFT
    /\ StatusOfText(GlobalValue(blocks)) = READY

C9_WitnessDeployed ==
    /\ Done(1) /\ op[1] = "approve" /\ result[1] = "fail"
    /\ StatusOfText(SessionValue(pre.agents)) = DEPLOYED

C9_WitnessNoPlan ==
    /\ Done(1) /\ op[1] = "approve" /\ result[1] = "fail"
    /\ SessionValue(pre.agents) = Sentinel

\* C10: after save_plan_draft has succeeded both tiers hold a plan with
\* status draft, and after publish_final_plan has succeeded one with status
\* ready.
C10_ToolsForceStatus ==
    \A w \in Workers :
        (Done(w) /\ result[w] = "ok")
        => /\ op[w] = "save_draft"
                => /\ StatusOfText(SessionValue(agents)) = DRAFT
                   /\ StatusOfText(GlobalValue(blocks)) = DRAFT
           /\ op[w] = "publish"
                => /\ StatusOfText(SessionValue(agents)) = READY
                   /\ StatusOfText(GlobalValue(blocks)) = READY

\* C10, witness: a draft saved from the payload that carried status testing
\* (the plan named Bare), over a plan that was ready.
C10_Witness ==
    /\ Done(1) /\ op[1] = "save_draft" /\ result[1] = "ok"
    /\ Get(plan[1], "project_name") = JStr("Bare")
    /\ StatusOfText(GlobalValue(pre.blocks)) = READY

\* A text that json.loads, the forcing of the status or SmartContractPlan
\* refuses.
Refused(plan_json, status) ==
    LET r == json_loads(plan_json)
    IN ~(/\ r.ok
         /\ r.val.t = "obj"
         /\ SmartContractPlanOk(SetKey(r.val, "status", JStr(status))))

\* The top-level fields of a parsed mapping that are missing or ill-typed.
Offending(plan_json) ==
    LET r == json_loads(plan_json)
    IN IF r.ok /\ r.val.t = "obj"
       THEN {f \in {"project_name", "description", "contracts"} : ~FieldOk(r.val, f)}
       ELSE {}

\* C11: a save_plan_draft call with a payload that does not parse or does
\* not validate ends as failed with one diagnostic text, which names every
\* offending field of the payload (project_name when that is missing), and
\* the server's agents and blocks are exactly what they were: nothing is
\* created and nothing overwritten.
C11_RefusedDraftTouchesNothing ==
    \A w \in Workers :
        (Done(w) /\ op[w] = "save_draft" /\ Refused(arg[w], DRAFT))
        => /\ result[w] = "fail"
           /\ Len(out[w]) = 1
           /\ \A f \in Offending(arg[w]) : Contains(out[w][1], f)
           /\ arg[w] = PMissingName => Contains(out[w][1], "project_name")
           /\ agents = pre.agents
           /\ blocks = pre.blocks

\* C11, witness: the payload without project_name has been refused on a
\* server that holds a plan in both tiers.
C11_Witness ==
    /\ Done(1) /\ op[1] = "save_draft" /\ arg[1] = PMissingName
    /\ result[1] = "fail"
    /\ IsPlanText(SessionValue(agents))
    /\ IsPlanText(GlobalValue(blocks))

\* A fenced block tagged json: the fence marker with json right after it.
HasJsonFence(ts) ==
    \E i \in 1..(Len(ts) - 1) : ts[i] = Fence /\ ts[i + 1] = "json"

\* C12: after a reply the graph has gone on to extract_plan exactly when
\* the reply holds PLAN_READY or a fenced json block (the ready flag is set
\* by chatbot from the same reply, when it holds PLAN_READY); otherwise the
\* turn has ended waiting for the user, and while it waits the reply is
\* what was printed.
C12_ExtractIffSignalled ==
    \A w \in Workers :
        node[w] # "none"
        => /\ node[w] = "extract_plan"
                <=> (Contains(last_message[w], "PLAN_READY") \/ HasJsonFence(last_message[w]))
           /\ node[w] = "chatbot"
                => /\ pc[w] = "chat_loop" \/ (pc[w] = "idle" /\ result[w] = "quit")
                   /\ pc[w] = "chat_loop" => out[w] = <<<<"Agent:">> \o last_message[w]>>

\* C12, witness: a reply with a fenced json block and no PLAN_READY has
\* gone to extract_plan, in a turn of the loop of update_plan().
C12_Witness ==
    /\ op[1] = "update" /\ node[1] = "extract_plan"
    /\ HasJsonFence(last_message[1])
    /\ ~Contains(last_message[1], "PLAN_READY")
    /\ pc[1] = "sp_agent"

\* C12, the other case: a reply without either has been printed and the
\* loop waits for the user.
C12_WitnessWaiting ==
    /\ op[1] = "run" /\ node[1] = "chatbot" /\ pc[1] = "chat_loop"
    /\ last_message[1] = Chatter

\* C13: run() or update_plan() that has ended with a final_plan (extract_plan
\* parsed and validated a reply, in the opening turn or a later one), no
\* client call having raised, has saved it: both tiers hold json.dumps of
\* the final_plan.
C13_FinalPlanIsSaved ==
    \A w \in Workers :
        (Done(w) /\ op[w] \in {"run", "update"} /\ plan[w] # NoPlan /\ ~Faulted(w))
        => /\ result[w] = "ok"
           /\ SessionValue(agents) = json_dumps(plan[w])
           /\ GlobalValue(blocks) = json_dumps(plan[w])

\* C14: when extract_plan has run on a reply and failed, the conversation
\* goes on (the loop waits for the user or the user has quit), the server
\* is as it was when the conversation began, and while the loop waits
\* nothing printed in the turn is the text of the exception or holds
\* PLAN_READY.
C14_FailedExtractionIsQuiet ==
    \A w \in Workers :
        (node[w] = "extract_plan" /\ extract_plan(last_message[w]) = NoPlan)
        => /\ pc[w] = "chat_loop" \/ (pc[w] = "idle" /\ result[w] = "quit")
           /\ agents = pre.agents
           /\ blocks = pre.blocks
           /\ pc[w] = "chat_loop"
                => \A i \in 1..Len(out[w]) :
                       /\ Head(out[w][i]) # "Could not parse plan:"
                       /\ ~Contains(out[w][i], "PLAN_READY")

\* C15: the current_plan and user_context blocks that a process in the
\* middle of a call reads through its MemoryManager change only by a step
\* of that process itself: a step of another process leaves them alone.
C15_SessionTierIsOnesOwn ==
    [][\A w \in Workers :
          (agentId[w] # 0 /\ pc'[w] = pc[w])
          => /\ agents'[agentId[w]].current_plan = agents[agentId[w]].current_plan
             /\ agents'[agentId[w]].user_context = agents[agentId[w]].user_context]_vars

\* C16: a save whose blocks.list() answer holds two blocks labelled
\* global_contract_plan ends there with a failure; it does not go on to
\* update one of the copies.
C16_DuplicateLabelAborts ==
    [][\A w \in Workers :
          (pc[w] = "sg_list" /\ pc'[w] # "sg_list"
             /\ Cardinality(BlocksLabelled(blocks)) >= 2)
          => pc'[w] = "idle" /\ result'[w] = "fail"]_vars

\* C17: once save_reasoning_note has returned its confirmation, the
\* user_context block of the agent holds every note saved so far (hist.noted),
\* whatever calls came in between.
C17_NotesAccumulate ==
    \A w \in Workers :
        (Done(w) /\ op[w] = "note" /\ result[w] = "ok")
        => \A note \in hist.noted :
               Contains(agents[FirstAgent(agents, AGENT_NAME)].user_context, note)

\* C18: a tool never ends with an exception, whatever its input and
\* whichever client call raises: each call of a tool in PLANNING_TOOLS ends
\* with one text returned.
C18_NoToolRaises ==
    \A w \in Workers :
        (Done(w) /\ op[w] \in PLANNING_TOOLS)
        => /\ result[w] # "raised"
           /\ Len(out[w]) = 1
           /\ out[w][1] # <<>>

\* A client call of save_reasoning_note has raised and the tool has returned
\* the text of its except branch.
C18_Witness ==
    /\ Done(1) /\ op[1] = "note"
    /\ out[1] = <<<<"Could not save reasoning note:", StoreError>>>>

\* C19: a tool called twice in a row with the same argument, no client call
\* raising in either call, returns the second time what it returned the
\* first time and leaves the server (agents and blocks, so both tiers and
\* the user_context) as the first call left it.
C19_RepeatedCallSame ==
    (/\ Done(1) /\ op[1] \in PLANNING_TOOLS
     /\ prev.op = op[1] /\ prev.arg = arg[1]
     /\ prev.out # RaisedText(prev.op)
     /\ out[1] # RaisedText(op[1]))
    => /\ out[1] = prev.out
       /\ result[1] = prev.result
       /\ agents = pre.agents
       /\ blocks = pre.blocks

\* The same note has been saved twice in a row.
C19_Witness ==
    /\ Done(1) /\ op[1] = "note" /\ result[1] = "ok"
    /\ prev.op = "note" /\ prev.arg = arg[1] /\ prev.result = "ok"

\* C20: while every save so far has gone through, get_plan and
\* get_from_global_memory give the plan of the last one (hist.last);
\* get_current_plan answers that no plan exists exactly when the
\* current_plan block holds its first value "No plan yet.", which it does
\* only while no save has succeeded, and answers with the last plan saved
\* otherwise.
C20_ReadGivesLastWrite ==
    /\ (pc[1] = "idle" /\ hist.saved /\ ~hist.failed)
       => /\ get_plan(agents[FirstAgent(agents, AGENT_NAME)]) = hist.last
          /\ get_from_global_memory(blocks) = hist.last
    /\ (Done(1) /\ op[1] = "read" /\ result[1] = "ok")
       => /\ out[1] = PlanFoundText("read", NoPlan)
               <=> SessionValue(agents) = Sentinel
          /\ out[1] = PlanFoundText("read", NoPlan) => ~hist.saved
          /\ (hist.saved /\ ~hist.failed) => out[1] = PlanFoundText("read", hist.last)

\* get_current_plan has returned the published plan Empty, the last one
\* saved.
C20_Witness ==
    /\ Done(1) /\ op[1] = "read" /\ result[1] = "ok"
    /\ hist.saved /\ ~hist.failed
    /\ Get(hist.last, "project_name") = JStr("Empty")
    /\ Get(hist.last, "status") = JStr(READY)
    /\ out[1] = PlanFoundText("read", hist.last)

\* str.lower of a standard's key.
LowerKey(key) ==
    [i \in 1..Len(key) |->
        CASE key[i] = "E" -> "e" [] key[i] = "R" -> "r" [] key[i] = "C" -> "c"
          [] OTHER -> key[i]]

\* C21: get_erc_standard called with the key of a standard as ERC_STANDARDS
\* spells it ("ERC-20") or with its lower-case spelling ("erc-20") finds
\* the standard and returns its record; called with a name that matches no
\* standard it returns the text that lists the keys.
C21_LookupNormalises ==
    (Done(1) /\ op[1] = "erc")
    => /\ (\E i \in 1..Len(ERC_STANDARDS) :
              arg[1] \in {ERC_STANDARDS[i], LowerKey(ERC_STANDARDS[i])})
          => /\ result[1] = "ok"
             /\ Head(out[1][1]) = "standard:"
       /\ result[1] # "ok"
          => /\ Head(out[1][1]) = "Unknown standard"
             /\ \A i \in 1..Len(ERC_STANDARDS) :
                    \E k \in 1..Len(out[1][1]) :
                        SubSeq(out[1][1], k, k + Len(ERC_STANDARDS[i]) - 1) = ERC_STANDARDS[i]

\* C22: neither tier ever holds a plan whose status is generating or
\* testing: nothing but the operations of the core writes to the server
\* here, so such a status would have been introduced by one of them.
C22_NoStageStatusFromCore ==
    /\ \A i \in 1..Len(agents) :
           StatusOfText(agents[i].current_plan) \notin {GENERATING, TESTING}
    /\ \A i \in 1..Len(blocks) :
           StatusOfText(blocks[i].value) \notin {GENERATING, TESTING}

\* The lists of a plan that hold more than one entry.
IsPair(p) ==
    /\ p # NoPlan
    /\ Len(Items(p, "contracts")) = 2
    /\ LET c == Items(p, "contracts")[2]
       IN /\ Len(Items(c, "dependencies")) = 2
          /\ Len(Items(Get(c, "constructor"), "inputs")) = 2
          /\ Len(Items(c, "functions")) = 2
          /\ Len(Items(Items(c, "functions")[2], "inputs")) = 2
          /\ Len(Items(Items(c, "functions")[2], "outputs")) = 2
          /\ Len(Items(Items(c, "functions")[2], "conditions")) = 2

\* C23: a plan the schema has built (the plan a tool is saving or has
\* validated), written with json.dumps, read with json.loads and built
\* again by the schema, is the same plan, every list in its order; and each
\* current_plan block that holds a plan reads back as a plan whose text is
\* the text of the block.
C23_RoundTrip ==
    /\ \A w \in Workers :
           plan[w] # NoPlan
           => /\ json_loads(json_dumps(plan[w])).ok
              /\ json_loads(json_dumps(plan[w])).val = plan[w]
              /\ ValidatedPlan(json_dumps(plan[w])) = plan[w]
    /\ \A i \in 1..Len(agents) :
           agents[i].current_plan # Sentinel
           => /\ ValidatedPlan(agents[i].current_plan) = get_plan(agents[i])
              /\ json_dumps(get_plan(agents[i])) = agents[i].current_plan

\* The plan of two contracts has been saved and is in the current_plan
\* block.
C23_Witness ==
    /\ Done(1) /\ op[1] \in Tools /\ result[1] = "ok"
    /\ IsPair(plan[1])
    /\ get_plan(agents[FirstAgent(agents, AGENT_NAME)]) = plan[1]

\* C24: a call of validate_plan, whatever its payload, leaves the server as
\* it found it: no agent and no block is created and no value changes.
C24_ValidateStoresNothing ==
    \A w \in Workers :
        op[w] = "validate"
        => /\ agents = pre.agents
           /\ blocks = pre.blocks
           /\ pc[w] = "idle"

\* validate_plan has found the plan of two contracts valid on a server that
\* holds another plan.
C24_Witness ==
    /\ Done(1) /\ op[1] = "validate" /\ result[1] = "ok"
    /\ IsPair(plan[1])
    /\ Head(out[1][1]) = "Plan is valid."
    /\ StatusOfText(SessionValue(agents)) = READY

\* How often node n is in a path of the graph.
Times(path, n) == Cardinality({i \in 1..Len(path) : path[i] = n})

\* Where run() and update_plan() stand from the first turn until the
\* MemoryManager call or save_plan call that follows a final_plan.
InConversation(w) ==
    \/ pc[w] \in {"chat_open", "chat_loop"}
    \/ op[w] = "run" /\ pc[w] = "mm_list"
    \/ op[w] = "update" /\ pc[w] = "sp_agent"
    \/ pc[w] = "idle" /\ result[w] \in {"quit", "unsaved"}

\* The completion has raised: the function has ended by an exception with
\* no final_plan, and not in a client call (run() makes none before it has
\* a final_plan; update_plan() has printed the plan it found by then).
CompletionFailed(w) ==
    /\ pc[w] = "idle" /\ result[w] = "raised" /\ plan[w] = NoPlan
    /\ op[w] = "run" \/ out[w] # <<>>

C26_GetOrCreate ==
    [][\A w \in Workers :
          /\ (pc[w] = "sg_list" /\ pc'[w] \in {"sg_create", "sg_update"}
                 /\ BlocksLabelled(blocks) # {})
             => blockId'[w] \in BlocksLabelled(blocks) /\ blocks' = blocks
          /\ (pc[w] = "mm_list" /\ pc'[w] \notin {"mm_list", "idle"}
                 /\ AgentsNamed(agents) # {})
             => agentId'[w] \in AgentsNamed(agents) /\ agents' = agents
          /\ (pc[w] = "sg_create" /\ pc'[w] = "sg_update")
             => /\ BlocksLabelled(blocks) = {}
                /\ blocks' = Append(blocks, [label |-> GLOBAL_LABEL, value |-> Sentinel])
          /\ (pc[w] = "mm_create" /\ pc'[w] \notin {"mm_create", "idle"})
             => /\ AgentsNamed(agents) = {}
                /\ Len(agents') = Len(agents) + 1
                /\ agents'[Len(agents')].current_plan = Sentinel]_vars

\* The plan a tier's text holds: NoPlan for no block and for the first
\* value "No plan yet.".
PlanIn(ts) == IF ts \in {<<>>, Sentinel} THEN NoPlan ELSE json_loads(ts).val

\* C27: when a save tool or approve_plan has reported a failure, each tier
\* holds the plan it held when the call began; and whenever no call is
\* under way the two tiers hold the same plan.
C27_FailedSaveCommitsNothing ==
    /\ \A w \in Workers :
           (/\ Done(w) /\ op[w] \in Tools \cup {"approve"}
            /\ result[w] \in {"fail", "http500"})
           => /\ PlanIn(SessionValue(agents)) = PlanIn(SessionValue(pre.agents))
              /\ PlanIn(GlobalValue(blocks)) = PlanIn(GlobalValue(pre.blocks))
    /\ (\A w \in Workers : pc[w] = "idle" /\ op[w] \in Tools \cup {"approve", "none"})
       => PlanIn(SessionValue(agents)) = PlanIn(GlobalValue(blocks))

\* C28: an approve_plan call that begins while the global block holds a
\* plan with status deployed fails and leaves the global block as it is.
C28_ApproveKeepsDeployed ==
    \A w \in Workers :
        (/\ Done(w) /\ op[w] = "approve"
         /\ StatusOfText(GlobalValue(pre.blocks)) = DEPLOYED)
        => /\ result[w] = "fail"
           /\ GlobalValue(blocks) = GlobalValue(pre.blocks)

====
